---- MODULE Spec2Model ----
(***************************************************************************)
(* A model of RAMCloud's SegmentManager (src/unnamed/part_002): the slot   *)
(* table, the per-state lists, the reserves, head and survivor allocation, *)
(* the log digest, iterator gating and the reclamation scan.               *)
(*                                                                         *)
(* The manager's fields are the variables below.  Each private method of   *)
(* the class is an operator from a manager record (all fields) to a        *)
(* manager record; each public operation is an action.  allocHead holds    *)
(* the manager lock across several blocking calls, so it is modelled as a  *)
(* sequence of steps (pc) during which no other locked operation runs but  *)
(* RPC threads keep starting and finishing RPCs.                           *)
(***************************************************************************)
EXTENDS Integers, Sequences, FiniteSets, TLC

---------------------------------------------------------------------------
(* Bounds of the model. *)

\* The allocator's initial free segment count ranges over
\* numEmergencyHeads..MaxFreeSegments.
MaxFreeSegments == 4
\* Segment ids 0..MaxSegmentId-1 can be issued.
MaxSegmentId == 4
\* The RPC epoch counter stops at MaxEpoch.
MaxEpoch == 1
\* At most MaxIterators log iterators exist at a time.
MaxIterators == 1
\* increaseSurvivorReserve is called with 0..MaxReserveRequest.
MaxReserveRequest == 1
\* A segment holds 1..MaxSegletsPerSegment seglets.
MaxSegletsPerSegment == 2
\* The values of diskExpansionFactor tried: with factor 1 the slot table is as
\* small as the constructor allows (maxSegments = the allocator's segments).
DiskExpansionFactors == { 1 }

---------------------------------------------------------------------------
(* Constants of the program. *)

numEmergencyHeads == 2

\* The cleaning pass of the specification's scenarios: CleaningPassHeads heads
\* (H1, H2, H3) and CleaningPassSurvivors survivors (S1, S2).  It runs on a
\* manager over the fewest segments that hold them beside the emergency
\* reserve, which issues one id to each.
CleaningPassHeads == 3
CleaningPassSurvivors == 2
CleaningPassIds == CleaningPassHeads + CleaningPassSurvivors
CleaningPassSegments == numEmergencyHeads + CleaningPassIds

HEAD == "HEAD"
CLEANING_INTO == "CLEANING_INTO"
CLEANABLE_PENDING_DIGEST == "CLEANABLE_PENDING_DIGEST"
NEWLY_CLEANABLE == "NEWLY_CLEANABLE"
CLEANABLE == "CLEANABLE"
FREEABLE_PENDING_DIGEST_AND_REFERENCES == "FREEABLE_PENDING_DIGEST_AND_REFERENCES"
FREEABLE_PENDING_REFERENCES == "FREEABLE_PENDING_REFERENCES"

State ==
    { HEAD, CLEANING_INTO, CLEANABLE_PENDING_DIGEST, NEWLY_CLEANABLE, CLEANABLE,
      FREEABLE_PENDING_DIGEST_AND_REFERENCES, FREEABLE_PENDING_REFERENCES }

ALLOC_HEAD == "ALLOC_HEAD"
ALLOC_EMERGENCY_HEAD == "ALLOC_EMERGENCY_HEAD"
ALLOC_SURVIVOR == "ALLOC_SURVIVOR"

\* A null LogSegment pointer; segments are referred to by their slot.
NULL == -1
\* Segment::INVALID_SEGMENT_ID
INVALID_SEGMENT_ID == -1

---------------------------------------------------------------------------
(* Tub<T>: a slot that is empty or holds one constructed value. *)

Empty == << >>
Tub(x) == << x >>
Get(t) == t[1]
Present(t) == t # << >>

(* Helpers on the intrusive lists, which hold slots. *)

Range(seq) == { seq[i] : i \in DOMAIN seq }
Erase(list, slot) == SelectSeq(list, LAMBDA x : x # slot)
Back(vec) == vec[Len(vec)]
PopBack(vec) == SubSeq(vec, 1, Len(vec) - 1)
MapErase(map, key) == [ k \in (DOMAIN map) \ { key } |-> map[k] ]
MapPut(map, key, value) ==
    [ k \in (DOMAIN map) \cup { key } |-> IF k = key THEN value ELSE map[k] ]
SetMin(S) == CHOOSE x \in S : \A y \in S : x <= y

---------------------------------------------------------------------------
VARIABLES
    (* SegmentManager fields *)
    maxSegments,                 \* const uint32_t, set by the constructor
    segments,                    \* Tub<LogSegment>[maxSegments]
    states,                      \* Tub<State>[maxSegments]
    freeSlots,                   \* vector of free slots
    nextSegmentId,
    idToSlotMap,
    allSegments,                 \* the slots on the list of all segments
    segmentsByState,             \* one list of slots per State
    numEmergencyHeadsAlloced,
    numSurvivorSegments,
    numSurvivorSegmentsAlloced,
    logIteratorCount,
    (* the allocator *)
    allocatorFree,               \* allocator.getFreeSegmentCount()
    (* ServerRpcPool: the RPC epoch oracle *)
    currentEpoch,
    outstandingRpcs,             \* the epochs of the RPCs in flight
    (* allocHead's frame while it holds the lock *)
    pc,                          \* "idle" when no operation holds the lock
    mustNotFail,
    prevHead,
    newHead,
    (* a failed assert() aborts the process *)
    failed,
    (* history, for stating the properties *)
    lastCall,                    \* the outcome of the allocHead that ran last
    lastFreed,                   \* the ids the last operation's scans freed
    lastHead,                    \* the id the last successful allocHead returned
    everReplicated,              \* replicaManager.allocateHead has returned once
    issuedIds,                   \* every id handed out, in allocation order
    everDigested,                \* every id that some digest has listed
    awaitingDigest,              \* cleaned ids no iterator-free digest followed yet
    everCleaned,                 \* ids passed to cleaningComplete
    everCleanable,               \* ids cleanableSegments has returned
    unreplicated,                \* cleaned ids first omitted by a digest whose
                                 \* head replicaManager.allocateHead has not returned
    lastOut                      \* what the last operation appended to its out list

mgrVars ==
    << segments, states, freeSlots, nextSegmentId, idToSlotMap, allSegments,
       segmentsByState, numEmergencyHeadsAlloced, numSurvivorSegments,
       numSurvivorSegmentsAlloced, logIteratorCount, allocatorFree, failed >>
frameVars == << pc, mustNotFail, prevHead, newHead >>
rpcVars == << currentEpoch, outstandingRpcs >>
historyVars ==
    << lastCall, lastFreed, lastHead, everReplicated, issuedIds, everDigested,
       awaitingDigest, everCleaned, everCleanable, unreplicated, lastOut >>
vars == << maxSegments, mgrVars, frameVars, rpcVars, historyVars >>

\* The manager as one record, the argument and result of the private methods.
Mgr ==
    [ segments |-> segments, states |-> states, freeSlots |-> freeSlots,
      nextSegmentId |-> nextSegmentId, idToSlotMap |-> idToSlotMap,
      allSegments |-> allSegments, segmentsByState |-> segmentsByState,
      numEmergencyHeadsAlloced |-> numEmergencyHeadsAlloced,
      numSurvivorSegments |-> numSurvivorSegments,
      numSurvivorSegmentsAlloced |-> numSurvivorSegmentsAlloced,
      logIteratorCount |-> logIteratorCount,
      allocatorFree |-> allocatorFree, failed |-> failed ]

SetMgr(m) ==
    /\ segments' = m.segments
    /\ states' = m.states
    /\ freeSlots' = m.freeSlots
    /\ nextSegmentId' = m.nextSegmentId
    /\ idToSlotMap' = m.idToSlotMap
    /\ allSegments' = m.allSegments
    /\ segmentsByState' = m.segmentsByState
    /\ numEmergencyHeadsAlloced' = m.numEmergencyHeadsAlloced
    /\ numSurvivorSegments' = m.numSurvivorSegments
    /\ numSurvivorSegmentsAlloced' = m.numSurvivorSegmentsAlloced
    /\ logIteratorCount' = m.logIteratorCount
    /\ allocatorFree' = m.allocatorFree
    /\ failed' = m.failed

---------------------------------------------------------------------------
(* LogSegment *)

\* The ReplicatedSegment a segment points to: none yet, or a replica that the
\* replica manager opened as a head or a non-head and that is open or closed.
NoReplica == [ open |-> FALSE, closed |-> FALSE, head |-> FALSE ]
\* replicaManager.allocateHead / allocateNonHead: a replica is opened.
ReplicaOpen(isHead) == [ open |-> TRUE, closed |-> FALSE, head |-> isHead ]
\* ReplicatedSegment::close followed by sync.
ReplicaClose(r) == [ r EXCEPT !.closed = TRUE ]

NewLogSegment(id, slot, isEmergencyHead) ==
    [ id |-> id, slot |-> slot, isEmergencyHead |-> isEmergencyHead,
      cleanedEpoch |-> 0,
      appendsDisabled |-> FALSE,
      header |-> << >>,          \* the SEGHEADER entry's headSegmentIdDuringCleaning
      digest |-> << >>,          \* the LOGDIGEST entry: << list of ids >>, if written
      replicatedSegment |-> NoReplica ]

\* s.getSegletsAllocated(): the seglets the segment holds when it is asked.  A
\* segment is born with a full segment's worth and the cleaner returns the
\* seglets a survivor did not fill, so the count is an input of the caller:
\* `seglets` gives it for every slot asked.
GetSegletsAllocated(seglets, s) == seglets[s.slot]

---------------------------------------------------------------------------
(* The private methods. *)

IdsIn(m, state) == { Get(m.segments[slot]).id : slot \in Range(m.segmentsByState[state]) }

IdList(m, list) == [ i \in DOMAIN list |-> Get(m.segments[list[i]]).id ]

AddToLists(m, slot) ==
    [ m EXCEPT !.allSegments = @ \cup { slot },
               !.segmentsByState[Get(m.states[slot])] = Append(@, slot) ]

\* A removal that leaves the segment on the list of all segments.
RemoveFromLists_byState(m, slot) ==
    [ m EXCEPT !.segmentsByState[Get(m.states[slot])] = Erase(@, slot) ]

RemoveFromLists(m, slot) ==
    [ m EXCEPT !.segmentsByState[Get(m.states[slot])] = Erase(@, slot),
               !.allSegments = @ \ { slot } ]

ChangeState(m, slot, newState) ==
    LET m1 == RemoveFromLists(m, slot)
        m2 == [ m1 EXCEPT !.states[slot] = Tub(newState) ]
    IN  AddToLists(m2, slot)

\* Move every segment on the list of state `from`, front first, to state `to`.
RECURSIVE Drain(_, _, _)
Drain(m, from, to) ==
    IF m.segmentsByState[from] = << >>
    THEN m
    ELSE Drain(ChangeState(m, Head(m.segmentsByState[from]), to), from, to)

\* A free that leaves the destroyed segment in its slot.
Free_keepSegment(m, slot) ==
    LET s == Get(m.segments[slot])
        m1 == [ m EXCEPT !.freeSlots = Append(@, slot),
                         !.idToSlotMap = MapErase(@, s.id) ]
        m2 == RemoveFromLists(m1, slot)
        m3 == [ m2 EXCEPT !.states[slot] = Empty,
                          !.allocatorFree = @ + 1 ]
    IN  IF s.isEmergencyHead
        THEN [ m3 EXCEPT !.numEmergencyHeadsAlloced = @ - 1 ]
        ELSE IF m3.numSurvivorSegmentsAlloced > 0
             THEN [ m3 EXCEPT !.numSurvivorSegmentsAlloced = @ - 1 ]
             ELSE m3

\* A free that keeps the reservation of the emergency head it destroys.
Free_keepReservation(m, slot) ==
    LET s == Get(m.segments[slot])
        m1 == [ m EXCEPT !.freeSlots = Append(@, slot),
                         !.idToSlotMap = MapErase(@, s.id) ]
        m2 == RemoveFromLists(m1, slot)
        m3 == [ m2 EXCEPT !.states[slot] = Empty,
                          !.segments[slot] = Empty,
                          !.allocatorFree = @ + 1 ]
    IN  IF ~ s.isEmergencyHead /\ m3.numSurvivorSegmentsAlloced > 0
        THEN [ m3 EXCEPT !.numSurvivorSegmentsAlloced = @ - 1 ]
        ELSE m3

\* A free that decrements the survivor count whatever its value.
Free_unguarded(m, slot) ==
    LET s == Get(m.segments[slot])
        m1 == [ m EXCEPT !.freeSlots = Append(@, slot),
                         !.idToSlotMap = MapErase(@, s.id) ]
        m2 == RemoveFromLists(m1, slot)
        m3 == [ m2 EXCEPT !.states[slot] = Empty,
                          !.segments[slot] = Empty,
                          !.allocatorFree = @ + 1 ]
    IN  IF s.isEmergencyHead
        THEN [ m3 EXCEPT !.numEmergencyHeadsAlloced = @ - 1 ]
        ELSE [ m3 EXCEPT !.numSurvivorSegmentsAlloced = @ - 1 ]

Free(m, slot) ==
    LET s == Get(m.segments[slot])
        m1 == [ m EXCEPT !.freeSlots = Append(@, slot),
                         !.idToSlotMap = MapErase(@, s.id) ]
        m2 == RemoveFromLists(m1, slot)
        m3 == [ m2 EXCEPT !.states[slot] = Empty,
                          !.segments[slot] = Empty,
                          !.allocatorFree = @ + 1 ]
    IN  IF s.isEmergencyHead
        THEN [ m3 EXCEPT !.numEmergencyHeadsAlloced = @ - 1 ]
        ELSE IF m3.numSurvivorSegmentsAlloced > 0
             THEN [ m3 EXCEPT !.numSurvivorSegmentsAlloced = @ - 1 ]
             ELSE m3

\* A scan that also frees a segment cleaned in the earliest outstanding epoch.
Unreferenced_inclusive(s, earliestEpoch) == s.cleanedEpoch <= earliestEpoch

\* The test of the reclamation scan: no outstanding RPC can refer to s.
Unreferenced(s, earliestEpoch) == s.cleanedEpoch < earliestEpoch

RECURSIVE ScanFreeable(_, _, _)
ScanFreeable(m, list, earliestEpoch) ==
    IF list = << >>
    THEN m
    ELSE LET slot == Head(list)
             m1 == IF Unreferenced(Get(m.segments[slot]), earliestEpoch)
                   THEN Free(m, slot)
                   ELSE m
         IN  ScanFreeable(m1, Tail(list), earliestEpoch)

\* A scan over the segments that still wait for a digest.
FreeablePending_digest(m) == m.segmentsByState[FREEABLE_PENDING_DIGEST_AND_REFERENCES]

\* The list the reclamation scan walks.
FreeablePending(m) == m.segmentsByState[FREEABLE_PENDING_REFERENCES]

FreeUnreferencedSegments(m, earliestEpoch) ==
    IF FreeablePending(m) = << >>
    THEN m
    ELSE ScanFreeable(m, FreeablePending(m), earliestEpoch)

EmergencyHeadsReserved(m) == numEmergencyHeads - m.numEmergencyHeadsAlloced
SurvivorSegmentsReserved(m) == m.numSurvivorSegments - m.numSurvivorSegmentsAlloced
TotalReserved(m) == EmergencyHeadsReserved(m) + SurvivorSegmentsReserved(m)

\* Whether every assert() that mayAlloc(type) executes holds.
MayAllocAsserts(m, type) ==
    /\ m.numEmergencyHeadsAlloced <= numEmergencyHeads
    /\ m.numSurvivorSegmentsAlloced <= m.numSurvivorSegments
    /\ m.allocatorFree >= TotalReserved(m)
    /\ type = ALLOC_EMERGENCY_HEAD =>
          /\ EmergencyHeadsReserved(m) > 0
          /\ Len(m.freeSlots) > 0
          /\ m.allocatorFree > 0
    /\ (type = ALLOC_SURVIVOR /\ SurvivorSegmentsReserved(m) # 0) =>
          /\ Len(m.freeSlots) > 0
          /\ m.allocatorFree > 0
    /\ (type = ALLOC_HEAD /\ m.allocatorFree > TotalReserved(m)) =>
          Len(m.freeSlots) > 0

\* A mayAlloc that grants a head out of the last reserved segment.
MayAlloc_lenient(m, type) ==
    CASE type = ALLOC_EMERGENCY_HEAD -> TRUE
      [] type = ALLOC_SURVIVOR -> SurvivorSegmentsReserved(m) # 0
      [] OTHER -> ~ (m.allocatorFree < TotalReserved(m))

MayAlloc(m, type) ==
    CASE type = ALLOC_EMERGENCY_HEAD -> TRUE
      [] type = ALLOC_SURVIVOR -> SurvivorSegmentsReserved(m) # 0
      [] OTHER -> ~ (m.allocatorFree <= TotalReserved(m))

\* An allocator of ids that does not advance.
NextId_same(id) == id

\* nextSegmentId++
NextId(id) == id + 1

\* alloc() once mayAlloc has granted the request.
Construct(m, type) ==
    LET id == m.nextSegmentId
        slot == Back(m.freeSlots)
        state == IF type = ALLOC_SURVIVOR THEN CLEANING_INTO ELSE HEAD
        m1 == [ m EXCEPT !.nextSegmentId = NextId(@),
                         !.freeSlots = PopBack(@),
                         !.segments[slot] =
                             Tub(NewLogSegment(id, slot, type = ALLOC_EMERGENCY_HEAD)),
                         !.states[slot] = Tub(state),
                         !.idToSlotMap = MapPut(@, id, slot),
                         !.allocatorFree = @ - 1 ]
        m2 == AddToLists(m1, slot)
        m3 == CASE type = ALLOC_SURVIVOR ->
                     [ m2 EXCEPT !.numSurvivorSegmentsAlloced = @ + 1 ]
                [] type = ALLOC_EMERGENCY_HEAD ->
                     [ m2 EXCEPT !.numEmergencyHeadsAlloced = @ + 1 ]
                [] OTHER -> m2
    IN  [ m |-> m3, s |-> slot ]

\* A refusal that consumes a segment id all the same.
Refuse_consuming(m) == [ m |-> [ m EXCEPT !.nextSegmentId = @ + 1 ], s |-> NULL ]

\* alloc() when mayAlloc refuses: NULL, nothing else.
Refuse(m) == [ m |-> m, s |-> NULL ]

\* alloc(type): the manager afterwards and the slot of the new segment (or NULL).
Alloc(m, type, earliestEpoch) ==
    LET m1 == FreeUnreferencedSegments(m, earliestEpoch)
    IN  IF ~ MayAllocAsserts(m1, type)
        THEN [ m |-> [ m1 EXCEPT !.failed = TRUE ], s |-> NULL ]
        ELSE IF ~ MayAlloc(m1, type)
             THEN Refuse(m1)
             ELSE Construct(m1, type)

GetHeadSegment(m) ==
    IF Len(m.segmentsByState[HEAD]) = 0 THEN NULL ELSE Head(m.segmentsByState[HEAD])

\* assert(segmentsByState[HEAD].size() == 1) in getHeadSegment
GetHeadSegmentAsserts(m) == Len(m.segmentsByState[HEAD]) <= 1

WriteHeader(m, slot, headSegmentIdDuringCleaning) ==
    [ m EXCEPT !.segments[slot][1].header = << headSegmentIdDuringCleaning >> ]

\* A writeDigest that makes its transitions whether or not an iterator exists.
NoIteration_always(m) == TRUE

\* The guard of writeDigest's two state-changing blocks.
NoIteration(m) == m.logIteratorCount = 0

\* A writeDigest that enumerates the survivors awaiting a digest.
DigestLists_pending == << CLEANABLE_PENDING_DIGEST, NEWLY_CLEANABLE >>

\* The lists whose segments writeDigest enumerates first, in this order.
DigestLists == << CLEANABLE, NEWLY_CLEANABLE >>

\* A writeDigest that lists the cleaned segments awaiting a digest whether or
\* not an iterator exists.
DigestFreeable_always(m) ==
    IdList(m, m.segmentsByState[FREEABLE_PENDING_DIGEST_AND_REFERENCES])

\* The ids writeDigest adds last: with an iterator, the segments in
\* FREEABLE_PENDING_DIGEST_AND_REFERENCES; without, it moves them on instead.
DigestFreeable(m) ==
    IF NoIteration(m)
    THEN << >>
    ELSE IdList(m, m.segmentsByState[FREEABLE_PENDING_DIGEST_AND_REFERENCES])

\* prevHead is a slot or NULL (to leave the previous head out).
WriteDigest(m, newHeadSlot, prevHeadSlot) ==
    LET m1 == IF NoIteration(m)
              THEN Drain(m, CLEANABLE_PENDING_DIGEST, NEWLY_CLEANABLE)
              ELSE m
        d1 == IdList(m1, m1.segmentsByState[DigestLists[1]])
                \o IdList(m1, m1.segmentsByState[DigestLists[2]])
        d2 == IF prevHeadSlot # NULL
              THEN Append(d1, Get(m1.segments[prevHeadSlot]).id)
              ELSE d1
        d3 == Append(d2, Get(m1.segments[newHeadSlot]).id)
        m2 == IF NoIteration(m1)
              THEN Drain(m1, FREEABLE_PENDING_DIGEST_AND_REFERENCES,
                         FREEABLE_PENDING_REFERENCES)
              ELSE m1
        d4 == d3 \o DigestFreeable(m1)
    IN  [ m2 EXCEPT !.segments[newHeadSlot][1].digest = << d4 >> ]

\* An emergency head that stays appendable.
DisableAppends_not(m, slot) == m

DisableAppends(m, slot) == [ m EXCEPT !.segments[slot][1].appendsDisabled = TRUE ]

---------------------------------------------------------------------------
(* ServerRpcPool, the RPC epoch oracle. *)

\* What getEarliestOutstandingEpoch returns with no RPC in flight (~0).
NoOutstandingEpoch == MaxEpoch + 1

GetEarliestOutstandingEpoch ==
    IF outstandingRpcs = { } THEN NoOutstandingEpoch ELSE SetMin(outstandingRpcs)

\* An RPC arrives and is stamped with the current epoch.  RPCs of the last epoch
\* are left out: no cleanedEpoch reaches MaxEpoch, so to every scan they look
\* like no outstanding RPC at all.
RpcStart ==
    /\ pc # "aborted"
    /\ currentEpoch < MaxEpoch
    /\ currentEpoch \notin outstandingRpcs
    /\ outstandingRpcs' = outstandingRpcs \cup { currentEpoch }
    /\ UNCHANGED << maxSegments, mgrVars, frameVars, currentEpoch,
                    historyVars >>

\* The RPCs stamped with epoch e have all completed.
RpcFinish(e) ==
    /\ pc # "aborted"
    /\ e \in outstandingRpcs
    /\ outstandingRpcs' = outstandingRpcs \ { e }
    /\ UNCHANGED << maxSegments, mgrVars, frameVars, currentEpoch,
                    historyVars >>

---------------------------------------------------------------------------
(* The history variables. *)

\* The history keeps what it knows of the segments that still exist.
Live(S, m) == S \cap DOMAIN m.idToSlotMap

ForgetFreed(m) ==
    /\ everDigested' = Live(everDigested, m)
    /\ awaitingDigest' = Live(awaitingDigest, m)
    /\ everCleaned' = Live(everCleaned, m)
    /\ everCleanable' = Live(everCleanable, m)
    /\ unreplicated' = Live(unreplicated, m)

\* No operation has appended to an out list since the last operation of another
\* kind.
NoOut == [ minSegmentId |-> NULL, threw |-> FALSE, list |-> << >> ]

\* No allocHead has returned since the last operation of another kind.
NoCall == [ outcome |-> "none", id |-> NULL ]

---------------------------------------------------------------------------
(* The constructor. *)

\* SegmentManager::SegmentManager over an allocator of n free segments.
Constructor(n, d) ==
    /\ maxSegments = n * d
    /\ allocatorFree = n
    /\ segments = [ slot \in 0 .. maxSegments - 1 |-> Empty ]
    /\ states = [ slot \in 0 .. maxSegments - 1 |-> Empty ]
    /\ freeSlots = [ i \in 1 .. maxSegments |-> i - 1 ]
    /\ nextSegmentId = 0
    /\ idToSlotMap = << >>
    /\ allSegments = { }
    /\ segmentsByState = [ st \in State |-> << >> ]
    /\ numEmergencyHeadsAlloced = 0
    /\ numSurvivorSegments = 0
    /\ numSurvivorSegmentsAlloced = 0
    /\ logIteratorCount = 0
    /\ currentEpoch = 0
    /\ outstandingRpcs = { }
    /\ pc = "idle"
    /\ mustNotFail = FALSE
    /\ prevHead = NULL
    /\ newHead = NULL
    /\ failed = FALSE
    /\ lastCall = NoCall
    /\ lastFreed = { }
    /\ lastHead = NULL
    /\ everReplicated = FALSE
    /\ issuedIds = << >>
    /\ everDigested = { }
    /\ awaitingDigest = { }
    /\ everCleaned = { }
    /\ everCleanable = { }
    /\ unreplicated = { }
    /\ lastOut = NoOut

Init ==
    \E n \in numEmergencyHeads .. MaxFreeSegments, d \in DiskExpansionFactors :
        Constructor(n, d)

---------------------------------------------------------------------------
(* allocHead, step by step under the lock. *)

\* The ids a manager issues in the model: fewer than IdLimit.
IdLimit == IF maxSegments >= CleaningPassSegments THEN CleaningPassIds ELSE MaxSegmentId

\* An allocHead that closes the previous head before it opens the new one.
AllocHeadOrder_closeFirst == << "closePrev", "replicate" >>

\* The order of allocHead's two blocking steps after the digest is written.
AllocHeadOrder == << "replicate", "closePrev" >>

\* The step that follows `step`; the closePrev step exists only with a previous head.
StepAfter(step, hasPrev) ==
    LET all == << "write" >> \o AllocHeadOrder \o << "idle" >>
        steps == SelectSeq(all, LAMBDA x : hasPrev \/ x # "closePrev")
        i == CHOOSE j \in DOMAIN steps : steps[j] = step
    IN  steps[i + 1]

\* An allocHead that draws an emergency head only when it must not fail.
TakeEmergencyPath_mustNotFail(m, mnf) == mnf

\* What allocHead does when alloc(ALLOC_HEAD) returned NULL.
TakeEmergencyPath(m, mnf) ==
    mnf \/ Len(m.segmentsByState[FREEABLE_PENDING_DIGEST_AND_REFERENCES]) > 0

\* The history after alloc returned r.
Issued(r) ==
    IF r.s # NULL THEN Append(issuedIds, Get(r.m.segments[r.s]).id) ELSE issuedIds

\* An allocHead that passes every previous head to writeDigest.
DigestPrevHead_any(m, prev) == prev

\* The previous head as allocHead passes it to writeDigest.
DigestPrevHead(m, prev) ==
    IF prev # NULL /\ ~ Get(m.segments[prev]).isEmergencyHead THEN prev ELSE NULL

\* writeHeader; writeDigest; disableAppends on an emergency head.
WriteEntries(m, new, prev) ==
    LET m1 == WriteHeader(m, new, INVALID_SEGMENT_ID)
        m2 == WriteDigest(m1, new, DigestPrevHead(m1, prev))
    IN  IF Get(m2.segments[new]).isEmergencyHead THEN DisableAppends(m2, new) ELSE m2

\* The cleaned segments that the digest written between m0 and m omits for the
\* first time: those it moved to FREEABLE_PENDING_REFERENCES.
OmittedBy(m0, m) ==
    IdsIn(m, FREEABLE_PENDING_REFERENCES) \ IdsIn(m0, FREEABLE_PENDING_REFERENCES)

\* The rest of an allocHead step in which alloc returned r: the entries are
\* written into a new head, and the history follows.
AfterAlloc(r, prev) ==
    LET m == IF r.s # NULL THEN WriteEntries(r.m, r.s, prev) ELSE r.m
        digest == IF r.s # NULL THEN Range(Get(m.segments[r.s]).digest[1]) ELSE { }
    IN  /\ SetMgr(m)
        /\ newHead' = r.s
        /\ issuedIds' = Issued(r)
        /\ everDigested' = Live(everDigested \cup digest, m)
        /\ awaitingDigest' = IF r.s # NULL /\ logIteratorCount = 0
                             THEN { }
                             ELSE Live(awaitingDigest, m)
        /\ everCleaned' = Live(everCleaned, m)
        /\ everCleanable' = Live(everCleanable, m)
        /\ unreplicated' = Live(unreplicated, m) \cup OmittedBy(r.m, m)
        /\ lastOut' = NoOut
        /\ lastFreed' = (IF pc = "idle" THEN { } ELSE lastFreed)
                           \cup (everCleaned \ DOMAIN m.idToSlotMap)

\* Lock; prevHead = getHeadSegment(); newHead = alloc(ALLOC_HEAD); with a new
\* head, the header and the digest are written.
AllocHeadBegin(mnf) ==
    /\ pc = "idle"
    /\ nextSegmentId < IdLimit
    /\ LET prev == GetHeadSegment(Mgr)
           r0 == Alloc(Mgr, ALLOC_HEAD, GetEarliestOutstandingEpoch)
           r == IF GetHeadSegmentAsserts(Mgr)
                THEN r0
                ELSE [ m |-> [ Mgr EXCEPT !.failed = TRUE ], s |-> NULL ]
           outcome == IF r.m.failed THEN "assert"
                      ELSE IF r.s # NULL THEN "head"
                      ELSE IF TakeEmergencyPath(r.m, mnf) THEN "emergency"
                      ELSE "absent"
       IN  /\ AfterAlloc(r, prev)
           /\ mustNotFail' = mnf
           /\ prevHead' = prev
           /\ pc' = CASE outcome = "assert" -> "aborted"
                      [] outcome = "head" -> StepAfter("write", prev # NULL)
                      [] outcome = "emergency" -> "emergency"
                      [] OTHER -> "idle"
           /\ lastCall' = [ outcome |-> outcome,
                            id |-> IF r.s # NULL
                                   THEN Get(r.m.segments[r.s]).id ELSE NULL ]
    /\ UNCHANGED << maxSegments, rpcVars, lastHead, everReplicated >>

\* newHead = alloc(ALLOC_EMERGENCY_HEAD); the header and the digest are written.
AllocHeadEmergency ==
    /\ pc = "emergency"
    /\ LET r == Alloc(Mgr, ALLOC_EMERGENCY_HEAD, GetEarliestOutstandingEpoch)
       IN  /\ AfterAlloc(r, prevHead)
           /\ pc' = IF r.m.failed THEN "aborted"
                    ELSE StepAfter("write", prevHead # NULL)
           /\ lastCall' = [ outcome |-> IF r.m.failed THEN "assert" ELSE "emergency",
                            id |-> IF r.s # NULL
                                   THEN Get(r.m.segments[r.s]).id ELSE NULL ]
    /\ UNCHANGED << maxSegments, mustNotFail, prevHead, rpcVars, lastHead,
                    everReplicated >>

\* The id allocHead returns when its step leads to `next`.
Returned(next) == IF next = "idle" THEN Get(segments[newHead]).id ELSE lastHead

\* newHead->replicatedSegment = replicaManager.allocateHead(...), which returns
\* once the header and the digest are on the backups.
AllocHeadReplicate ==
    /\ pc = "replicate"
    /\ SetMgr([ Mgr EXCEPT !.segments[newHead][1].replicatedSegment =
                                ReplicaOpen(TRUE) ])
    /\ pc' = StepAfter("replicate", prevHead # NULL)
    /\ lastHead' = Returned(StepAfter("replicate", prevHead # NULL))
    /\ everReplicated' = TRUE
    /\ unreplicated' = { }
    /\ UNCHANGED << maxSegments, mustNotFail, prevHead, newHead, rpcVars,
                    lastCall, lastFreed, issuedIds, everDigested, awaitingDigest,
                    everCleaned, everCleanable >>
    /\ lastOut' = NoOut

\* An allocHead that leaves the previous head in HEAD.
PrevHeadState_head == HEAD

\* The state the previous head moves to when it was not an emergency head.
PrevHeadState == NEWLY_CLEANABLE

\* prevHead->replicatedSegment points to a replica (it is never NULL).
HasReplica(s) == s.replicatedSegment.open

\* close and sync the previous head's replica; free it or make it cleanable.
\* Calling close through a NULL replicatedSegment ends the process.
AllocHeadClosePrev ==
    /\ pc = "closePrev"
    /\ LET ok == HasReplica(Get(segments[prevHead]))
           m1 == [ Mgr EXCEPT !.segments[prevHead][1].replicatedSegment =
                                  ReplicaClose(@) ]
           m2 == IF ~ ok
                 THEN [ Mgr EXCEPT !.failed = TRUE ]
                 ELSE IF Get(m1.segments[prevHead]).isEmergencyHead
                      THEN Free(m1, prevHead)
                      ELSE ChangeState(m1, prevHead, PrevHeadState)
       IN  /\ SetMgr(m2) /\ ForgetFreed(m2)
           /\ pc' = IF ok THEN StepAfter("closePrev", TRUE) ELSE "aborted"
           /\ lastHead' = IF ok THEN Returned(StepAfter("closePrev", TRUE))
                          ELSE lastHead
    /\ lastOut' = NoOut
    /\ UNCHANGED << maxSegments, mustNotFail, prevHead, newHead, rpcVars,
                    lastCall, lastFreed, everReplicated, issuedIds >>

---------------------------------------------------------------------------
(* The other public operations; each holds the lock from entry to return. *)

\* The head id a cleaner stamps its survivors with: the head when it looked.
HeadIdChoices ==
    IF segmentsByState[HEAD] = << >>
    THEN { INVALID_SEGMENT_ID }
    ELSE { Get(segments[slot]).id : slot \in Range(segmentsByState[HEAD]) }

AllocSurvivor(headSegmentIdDuringCleaning) ==
    /\ pc = "idle"
    /\ nextSegmentId < IdLimit
    /\ LET r == Alloc(Mgr, ALLOC_SURVIVOR, GetEarliestOutstandingEpoch)
       IN  /\ ForgetFreed(r.m)
           /\ lastFreed' = everCleaned \ DOMAIN r.m.idToSlotMap
           /\ IF r.s = NULL
              THEN /\ SetMgr(r.m)
                   /\ pc' = IF r.m.failed THEN "aborted" ELSE "idle"
                   /\ UNCHANGED issuedIds
              ELSE /\ SetMgr([ WriteHeader(r.m, r.s, headSegmentIdDuringCleaning)
                                 EXCEPT !.segments[r.s][1].replicatedSegment =
                                            ReplicaOpen(FALSE) ])
                   /\ issuedIds' = Issued(r)
                   /\ pc' = "idle"
    /\ lastCall' = NoCall
    /\ lastOut' = NoOut
    /\ UNCHANGED << maxSegments, mustNotFail, prevHead, newHead, rpcVars, lastHead,
                    everReplicated >>

\* The lists of distinct slots drawn from S: what a cleaner can pass as `clean`.
RECURSIVE ListsOver(_)
ListsOver(S) ==
    { << >> } \cup UNION { { << x >> \o l : l \in ListsOver(S \ { x }) } : x \in S }

RECURSIVE SumSeglets(_, _, _)
SumSeglets(m, seglets, list) ==
    IF list = << >>
    THEN 0
    ELSE GetSegletsAllocated(seglets, Get(m.segments[Head(list)]))
           + SumSeglets(m, seglets, Tail(list))

\* The seglet counts the segments asked by cleaningComplete(clean) can report.
SegletCounts(m, clean) ==
    [ Range(m.segmentsByState[CLEANING_INTO]) \cup Range(clean)
        -> 1 .. MaxSegletsPerSegment ]

\* s->cleanedEpoch = epoch; changeState(*s, FREEABLE_PENDING_DIGEST_AND_REFERENCES)
RECURSIVE MarkCleaned(_, _, _)
MarkCleaned(m, clean, epoch) ==
    IF clean = << >>
    THEN m
    ELSE LET slot == Head(clean)
             m1 == [ m EXCEPT !.segments[slot][1].cleanedEpoch = epoch ]
         IN  MarkCleaned(ChangeState(m1, slot, FREEABLE_PENDING_DIGEST_AND_REFERENCES),
                         Tail(clean), epoch)

\* A cleaningComplete that records the epoch after the increment.
CleanedEpoch_incremented(epochBefore) == epochBefore + 1

\* ServerRpcPool<>::incrementCurrentEpoch() - 1, given the epoch before the call.
CleanedEpoch(epochBefore) == (epochBefore + 1) - 1

CleaningComplete(clean) ==
    /\ pc = "idle"
    /\ currentEpoch < MaxEpoch
    /\ \E seglets \in SegletCounts(Mgr, clean) :
          LET segletsUsed == SumSeglets(Mgr, seglets, segmentsByState[CLEANING_INTO])
              segletsFreed == SumSeglets(Mgr, seglets, clean)
              m1 == Drain(Mgr, CLEANING_INTO, CLEANABLE_PENDING_DIGEST)
              m2 == MarkCleaned(m1, clean, CleanedEpoch(currentEpoch))
              ok == segletsUsed <= segletsFreed
          IN  /\ SetMgr([ m2 EXCEPT !.failed = ~ ok ])
              /\ pc' = IF ok THEN "idle" ELSE "aborted"
    /\ awaitingDigest' = awaitingDigest \cup Range(IdList(Mgr, clean))
    /\ everCleaned' = everCleaned \cup Range(IdList(Mgr, clean))
    /\ currentEpoch' = currentEpoch + 1
    /\ lastCall' = NoCall
    /\ lastFreed' = { }
    /\ lastOut' = NoOut
    /\ UNCHANGED << maxSegments, mustNotFail, prevHead, newHead, outstandingRpcs,
                    lastHead, everReplicated, issuedIds, everDigested,
                    everCleanable, unreplicated >>

\* A cleanableSegments that also returns what it returned before.
CleanableOut_all(m) ==
    IdList(m, m.segmentsByState[CLEANABLE] \o m.segmentsByState[NEWLY_CLEANABLE])

\* What cleanableSegments appends to `out`: the segments it moves, front first.
CleanableOut(m) == IdList(m, m.segmentsByState[NEWLY_CLEANABLE])

CleanableSegments ==
    /\ pc = "idle"
    /\ SetMgr(Drain(Mgr, NEWLY_CLEANABLE, CLEANABLE))
    /\ lastOut' = [ NoOut EXCEPT !.list = CleanableOut(Mgr) ]
    /\ everCleanable' = everCleanable \cup Range(CleanableOut(Mgr))
    /\ lastCall' = NoCall
    /\ lastFreed' = { }
    /\ UNCHANGED << maxSegments, frameVars, rpcVars, lastHead, everReplicated,
                    issuedIds, everDigested, awaitingDigest, everCleaned,
                    unreplicated >>

LogIteratorCreated ==
    /\ pc = "idle"
    /\ logIteratorCount < MaxIterators
    /\ SetMgr([ Mgr EXCEPT !.logIteratorCount = @ + 1 ])
    /\ lastCall' = NoCall
    /\ lastFreed' = { }
    /\ lastOut' = NoOut
    /\ UNCHANGED << maxSegments, frameVars, rpcVars, lastHead, everReplicated,
                    issuedIds, everDigested, awaitingDigest, everCleaned,
                    everCleanable, unreplicated >>

\* Only the destructor of a LogIterator calls this: an iterator exists.
LogIteratorDestroyed ==
    /\ pc = "idle"
    /\ logIteratorCount > 0
    /\ SetMgr([ Mgr EXCEPT !.logIteratorCount = @ - 1 ])
    /\ lastCall' = NoCall
    /\ lastFreed' = { }
    /\ lastOut' = NoOut
    /\ UNCHANGED << maxSegments, frameVars, rpcVars, lastHead, everReplicated,
                    issuedIds, everDigested, awaitingDigest, everCleaned,
                    everCleanable, unreplicated >>

\* numSegments > (allocator.getFreeSegmentCount() - numEmergencyHeads), in unsigned
\* 32-bit arithmetic: when free < numEmergencyHeads the difference wraps to
\* 2^32 - (numEmergencyHeads - free), and n > 2^32 - k iff (n + k - 1) \div 4 >= 2^30.
ExceedsFree(numSegments, free) ==
    IF free >= numEmergencyHeads
    THEN numSegments > free - numEmergencyHeads
    ELSE (numSegments + (numEmergencyHeads - free) - 1) \div 4 >= 2 ^ 30

\* What increaseSurvivorReserve(numSegments) returns.
IncreaseSurvivorReserveReturns(numSegments) ==
    ~ (numSegments < numSurvivorSegments \/ ExceedsFree(numSegments, allocatorFree))

IncreaseSurvivorReserve(numSegments) ==
    /\ pc = "idle"
    /\ IF ~ IncreaseSurvivorReserveReturns(numSegments)
       THEN SetMgr(Mgr)
       ELSE SetMgr([ Mgr EXCEPT !.numSurvivorSegments = numSegments ])
    /\ lastCall' = NoCall
    /\ lastFreed' = { }
    /\ lastOut' = NoOut
    /\ UNCHANGED << maxSegments, frameVars, rpcVars, lastHead, everReplicated,
                    issuedIds, everDigested, awaitingDigest, everCleaned,
                    everCleanable, unreplicated >>

\* getHeadSegment() != NULL && getHeadSegment()->id >= minSegmentId: the head
\* getActiveSegments appends last.
ActiveHead(m, minSegmentId) ==
    IF GetHeadSegment(m) # NULL /\ Get(m.segments[GetHeadSegment(m)]).id >= minSegmentId
    THEN << Get(m.segments[GetHeadSegment(m)]).id >>
    ELSE << >>

\* A getActiveSegments that walks the segments awaiting references only.
ActiveSegmentStates_references ==
    << NEWLY_CLEANABLE, CLEANABLE, FREEABLE_PENDING_REFERENCES >>

\* The states whose lists getActiveSegments walks, in this order.
ActiveSegmentStates ==
    << NEWLY_CLEANABLE, CLEANABLE, FREEABLE_PENDING_DIGEST_AND_REFERENCES >>

\* The walk over the lists: the segments with id >= minSegmentId, in list order.
RECURSIVE WalkActive(_, _, _)
WalkActive(m, sts, minSegmentId) ==
    IF sts = << >>
    THEN << >>
    ELSE SelectSeq(IdList(m, m.segmentsByState[Head(sts)]),
                   LAMBDA id : id >= minSegmentId)
           \o WalkActive(m, Tail(sts), minSegmentId)

\* getActiveSegments takes no lock: it runs whatever step another thread's
\* allocHead has reached.  It throws when no iterator exists; the assertion of
\* getHeadSegment aborts the process when two segments are in HEAD.
GetActiveSegments(minSegmentId) ==
    /\ pc # "aborted"
    /\ LET threw == logIteratorCount = 0
           ok == threw \/ GetHeadSegmentAsserts(Mgr)
           list == IF threw \/ ~ ok
                   THEN << >>
                   ELSE WalkActive(Mgr, ActiveSegmentStates, minSegmentId)
                          \o ActiveHead(Mgr, minSegmentId)
       IN  /\ lastOut' = [ minSegmentId |-> minSegmentId, threw |-> threw,
                           list |-> list ]
           /\ failed' = ~ ok
           /\ pc' = IF ok THEN pc ELSE "aborted"
    /\ UNCHANGED << maxSegments, segments, states, freeSlots, nextSegmentId,
                    idToSlotMap, allSegments, segmentsByState,
                    numEmergencyHeadsAlloced, numSurvivorSegments,
                    numSurvivorSegmentsAlloced, logIteratorCount, allocatorFree,
                    mustNotFail, prevHead, newHead, rpcVars, lastCall, lastFreed,
                    lastHead, everReplicated, issuedIds, everDigested,
                    awaitingDigest, everCleaned, everCleanable, unreplicated >>

\* operator[](slot): the Tub holding the segment returned, or Empty when it
\* throws SegmentManagerException("invalid segment slot").
OperatorIndex(m, slot) ==
    IF slot >= maxSegments \/ ~ Present(m.segments[slot])
    THEN Empty
    ELSE m.segments[slot]

\* A thread of the log calls operator[](slot); it takes no lock.  The outcome
\* is recorded: the exception, or the id of the segment returned.
Lookup(slot) ==
    /\ pc # "aborted"
    /\ LET r == OperatorIndex(Mgr, slot)
       IN  lastOut' = [ minSegmentId |-> NULL, threw |-> ~ Present(r),
                        list |-> IF Present(r) THEN << Get(r).id >> ELSE << >> ]
    /\ UNCHANGED << maxSegments, mgrVars, frameVars, rpcVars, lastCall, lastFreed,
                    lastHead, everReplicated, issuedIds, everDigested,
                    awaitingDigest, everCleaned, everCleanable, unreplicated >>

---------------------------------------------------------------------------
(* Failures of the replica manager: the exception leaves the operation at the
   call that raised it, and the lock guard releases the lock. *)

\* What allocHead's caller sees when the call throws.
Thrown == [ outcome |-> "error", id |-> NULL ]

\* replicaManager.allocateHead throws.
AllocHeadReplicateFails ==
    /\ pc = "replicate"
    /\ pc' = "idle"
    /\ lastCall' = Thrown
    /\ UNCHANGED << maxSegments, mgrVars, mustNotFail, prevHead, newHead, rpcVars,
                    lastFreed, lastHead, everReplicated, issuedIds, everDigested,
                    awaitingDigest, everCleaned, everCleanable, unreplicated,
                    lastOut >>

\* prevHead->replicatedSegment->close() throws, or it returns and sync throws.
AllocHeadClosePrevFails(closed) ==
    /\ pc = "closePrev"
    /\ HasReplica(Get(segments[prevHead]))
    /\ SetMgr(IF closed
              THEN [ Mgr EXCEPT !.segments[prevHead][1].replicatedSegment =
                                    ReplicaClose(@) ]
              ELSE Mgr)
    /\ pc' = "idle"
    /\ lastCall' = Thrown
    /\ UNCHANGED << maxSegments, mustNotFail, prevHead, newHead, rpcVars,
                    lastFreed, lastHead, everReplicated, issuedIds, everDigested,
                    awaitingDigest, everCleaned, everCleanable, unreplicated,
                    lastOut >>

\* allocSurvivor in which replicaManager.allocateNonHead throws: the survivor
\* is allocated and its header written, and it has no replica.
AllocSurvivorFails(headSegmentIdDuringCleaning) ==
    /\ pc = "idle"
    /\ nextSegmentId < IdLimit
    /\ LET r == Alloc(Mgr, ALLOC_SURVIVOR, GetEarliestOutstandingEpoch)
       IN  /\ r.s # NULL
           /\ SetMgr(WriteHeader(r.m, r.s, headSegmentIdDuringCleaning))
           /\ ForgetFreed(r.m)
           /\ lastFreed' = everCleaned \ DOMAIN r.m.idToSlotMap
           /\ issuedIds' = Issued(r)
    /\ lastCall' = Thrown
    /\ lastOut' = NoOut
    /\ UNCHANGED << maxSegments, frameVars, rpcVars, lastHead, everReplicated >>

---------------------------------------------------------------------------
Next ==
    \/ \E mnf \in BOOLEAN : AllocHeadBegin(mnf)
    \/ AllocHeadEmergency
    \/ AllocHeadReplicate
    \/ AllocHeadClosePrev
    \/ \E h \in HeadIdChoices : AllocSurvivor(h)
    \/ \E clean \in ListsOver(Range(segmentsByState[CLEANABLE])) :
          CleaningComplete(clean)
    \/ CleanableSegments
    \/ LogIteratorCreated
    \/ LogIteratorDestroyed
    \/ \E n \in 0 .. MaxReserveRequest : IncreaseSurvivorReserve(n)
    \/ RpcStart
    \/ \E e \in outstandingRpcs : RpcFinish(e)

Spec == Init /\ [][Next]_vars

\* The operations above together with an iterator thread that calls
\* getActiveSegments at any moment.
NextIteration ==
    \/ Next
    \/ \E minSegmentId \in 0 .. MaxSegmentId : GetActiveSegments(minSegmentId)

SpecIteration == Init /\ [][NextIteration]_vars

\* The operations above with a replica manager whose calls can fail.
NextFaulty ==
    \/ Next
    \/ AllocHeadReplicateFails
    \/ \E closed \in BOOLEAN : AllocHeadClosePrevFails(closed)
    \/ \E h \in HeadIdChoices : AllocSurvivorFails(h)

SpecFaulty == Init /\ [][NextFaulty]_vars

\* The operations that allocate, move and free segments, with a thread that
\* looks segments up by slot at any moment; no RPC is in flight.
NextLookup ==
    \/ \E mnf \in BOOLEAN : AllocHeadBegin(mnf)
    \/ AllocHeadEmergency
    \/ AllocHeadReplicate
    \/ AllocHeadClosePrev
    \/ \E h \in HeadIdChoices : AllocSurvivor(h)
    \/ \E clean \in ListsOver(Range(segmentsByState[CLEANABLE])) :
          CleaningComplete(clean)
    \/ CleanableSegments
    \/ \E n \in 0 .. MaxReserveRequest : IncreaseSurvivorReserve(n)
    \/ \E slot \in 0 .. MaxFreeSegments : Lookup(slot)

SpecLookup == Init /\ [][NextLookup]_vars

\* The log keeps asking for heads and RPCs complete: allocHead is called again
\* as long as the model has ids to issue, an allocHead that is called runs to
\* its return, and the RPCs of every epoch finish.  Each conjunct is weak
\* fairness of the step with ENABLED written out: allocHead(true) can start in
\* every idle state with an id left; the steps inside allocHead are the only
\* way out of their pc and always leave it; RpcFinish(e) is enabled while an
\* RPC of epoch e is in flight and the process runs, and ends that.
Fairness ==
    /\ []<>(~ (pc = "idle" /\ nextSegmentId < IdLimit))
          \/ []<><< \E mnf \in BOOLEAN : AllocHeadBegin(mnf) >>_vars
    /\ []<>(pc # "emergency")
    /\ []<>(pc # "replicate")
    /\ []<>(pc # "closePrev")
    /\ \A e \in 0 .. MaxEpoch - 1 : []<>(pc = "aborted" \/ e \notin outstandingRpcs)

\* The manager over the most free segments the model admits.
InitReclamation == Constructor(MaxFreeSegments, 1)

SpecReclamation == InitReclamation /\ [][Next]_vars /\ Fairness

\* The cleaning pass: the manager's operations on a manager over
\* CleaningPassSegments segments whose cleaner reserves CleaningPassSurvivors
\* survivor segments, while no RPC is in flight.
InitCleaningPass == Constructor(CleaningPassSegments, 1)

NextCleaningPass ==
    \/ \E mnf \in BOOLEAN : AllocHeadBegin(mnf)
    \/ AllocHeadEmergency
    \/ AllocHeadReplicate
    \/ AllocHeadClosePrev
    \/ \E h \in HeadIdChoices : AllocSurvivor(h)
    \/ \E clean \in ListsOver(Range(segmentsByState[CLEANABLE])) :
          CleaningComplete(clean)
    \/ CleanableSegments
    \/ LogIteratorCreated
    \/ LogIteratorDestroyed
    \/ IncreaseSurvivorReserve(CleaningPassSurvivors)

SpecCleaningPass == InitCleaningPass /\ [][NextCleaningPass]_vars

---------------------------------------------------------------------------
(* The properties. *)

\* The live segment with this id.
SegmentOf(id) == Get(segments[idToSlotMap[id]])

\* The ids whose segments this step destroys.
FreedIds == (DOMAIN idToSlotMap) \ (DOMAIN idToSlotMap')

\* The live segments.
LiveSegments == { Get(segments[slot]) : slot \in allSegments }

\* This step is the first step of an allocHead call.
IsAllocHeadBegin == AllocHeadBegin(mustNotFail')

\* This step allocates a head and writes its header and digest.
WritesDigest == (IsAllocHeadBegin \/ AllocHeadEmergency) /\ newHead' # NULL

\* This step belongs to an allocHead call.
IsAllocHeadStep ==
    IsAllocHeadBegin \/ AllocHeadEmergency \/ AllocHeadReplicate \/ AllocHeadClosePrev

\* C1: a segment that was passed to cleaningComplete is destroyed only when
\* (a) an allocHead after that cleaningComplete has written its digest with
\* logIteratorCount = 0, and (b) the earliest outstanding RPC epoch is strictly
\* greater than the segment's cleanedEpoch, so that no RPC of an epoch up to
\* its cleanedEpoch is outstanding.
C1_FreedAfterDigestAndRpcs ==
    [][ \A id \in FreedIds :
            id \in everCleaned =>
                /\ id \notin awaitingDigest
                /\ GetEarliestOutstandingEpoch > SegmentOf(id).cleanedEpoch
                /\ \A e \in outstandingRpcs : e > SegmentOf(id).cleanedEpoch ]_vars

\* A scan has just destroyed a cleaned segment.
C1_Witness == lastFreed # { }

\* C2 (as the specification states it): while logIteratorCount > 0 no segment
\* in FREEABLE_PENDING_REFERENCES is destroyed, whenever it entered that state.
C2_NoFreeWhileIterating ==
    [][ logIteratorCount > 0 =>
            IdsIn(Mgr, FREEABLE_PENDING_REFERENCES) \cap FreedIds = { } ]_vars

\* C3: once replicaManager.allocateHead has returned for the first head, some
\* segment has at every moment a head replica that is open and not closed; so
\* the previous head's replica is closed only after the new head's is open.
C3_OpenHeadReplica ==
    everReplicated =>
        \E s \in LiveSegments :
            /\ s.replicatedSegment.head
            /\ s.replicatedSegment.open
            /\ ~ s.replicatedSegment.closed

\* allocHead has replaced a head: the previous head's replica is closed.
C3_Witness ==
    /\ pc = "idle"
    /\ \E s \in LiveSegments :
          s.replicatedSegment.head /\ s.replicatedSegment.closed

NewDigest == Get(segments[newHead]).digest[1]

\* The previous head's id when it exists and is not an emergency head.
PrevHeadIds ==
    IF prevHead # NULL /\ ~ Get(segments[prevHead]).isEmergencyHead
    THEN { Get(segments[prevHead]).id }
    ELSE { }

\* C5: the digest a successful allocHead has just written lists, without
\* duplicates, exactly: the segments in CLEANABLE, those in NEWLY_CLEANABLE
\* (after the promotion), the previous head unless it is an emergency head, the
\* new head, and the segments in FREEABLE_PENDING_DIGEST_AND_REFERENCES iff
\* logIteratorCount > 0.
C5_DigestContents ==
    pc = "replicate" =>
        /\ \A i, j \in DOMAIN NewDigest : NewDigest[i] = NewDigest[j] => i = j
        /\ Range(NewDigest) =
              IdsIn(Mgr, CLEANABLE) \cup IdsIn(Mgr, NEWLY_CLEANABLE)
                \cup PrevHeadIds \cup { Get(segments[newHead]).id }
                \cup (IF logIteratorCount > 0
                      THEN IdsIn(Mgr, FREEABLE_PENDING_DIGEST_AND_REFERENCES)
                      ELSE { })

\* A digest written under an iterator, with a cleaned segment awaiting a digest
\* and a cleanable segment: every part of the rule contributes.
C5_Witness ==
    /\ pc = "replicate"
    /\ logIteratorCount > 0
    /\ segmentsByState[FREEABLE_PENDING_DIGEST_AND_REFERENCES] # << >>
    /\ segmentsByState[CLEANABLE] # << >>

\* C6: in an allocHead that succeeds with logIteratorCount = 0, the digest
\* empties CLEANABLE_PENDING_DIGEST into NEWLY_CLEANABLE and
\* FREEABLE_PENDING_DIGEST_AND_REFERENCES into FREEABLE_PENDING_REFERENCES; with
\* logIteratorCount > 0 no step of allocHead changes the membership of either
\* state and no segment enters FREEABLE_PENDING_REFERENCES.
C6_DigestTransitionsGated ==
    [][ IsAllocHeadStep =>
          LET pending == IdsIn(Mgr, CLEANABLE_PENDING_DIGEST)
              freeable == IdsIn(Mgr, FREEABLE_PENDING_DIGEST_AND_REFERENCES)
              pending1 == { Get(segments'[slot]).id :
                              slot \in Range(segmentsByState'[CLEANABLE_PENDING_DIGEST]) }
              freeable1 == { Get(segments'[slot]).id :
                              slot \in Range(segmentsByState'[
                                           FREEABLE_PENDING_DIGEST_AND_REFERENCES]) }
              newly1 == { Get(segments'[slot]).id :
                              slot \in Range(segmentsByState'[NEWLY_CLEANABLE]) }
              unref == IdsIn(Mgr, FREEABLE_PENDING_REFERENCES)
              unref1 == { Get(segments'[slot]).id :
                              slot \in Range(segmentsByState'[
                                           FREEABLE_PENDING_REFERENCES]) }
          IN  IF logIteratorCount = 0 /\ WritesDigest
              THEN /\ pending1 = { }
                   /\ freeable1 = { }
                   /\ pending \subseteq newly1
                   /\ freeable \subseteq unref1
              ELSE /\ pending1 = pending
                   /\ freeable1 = freeable
                   /\ logIteratorCount > 0 => unref1 \subseteq unref ]_vars

\* A digest has just been written under an iterator while survivors and a
\* cleaned segment await a digest: both are still where they were.
C6_Witness ==
    /\ pc = "replicate"
    /\ logIteratorCount > 0
    /\ segmentsByState[CLEANABLE_PENDING_DIGEST] # << >>
    /\ segmentsByState[FREEABLE_PENDING_DIGEST_AND_REFERENCES] # << >>

\* The survivors no digest may list yet.
Survivors == IdsIn(Mgr, CLEANING_INTO) \cup IdsIn(Mgr, CLEANABLE_PENDING_DIGEST)

\* C7: while a survivor is in CLEANING_INTO or CLEANABLE_PENDING_DIGEST no
\* digest lists its id: none written so far, and none a live segment carries.
C7_SurvivorsUndigested ==
    /\ Survivors \cap everDigested = { }
    /\ \A s \in LiveSegments :
          s.digest # << >> => Survivors \cap Range(s.digest[1]) = { }

\* A head allocated after a survivor has just written its digest while the
\* survivor is in CLEANING_INTO or CLEANABLE_PENDING_DIGEST.
C7_Witness ==
    /\ pc = "replicate"
    /\ \E id \in Survivors : id < Get(segments[newHead]).id

\* C8: every segment gets an id strictly greater than the id of every segment
\* allocated before it, so that no id is issued twice, also once the earlier
\* holder is freed and its slot is in use again.
C8_IdsIncrease ==
    \A i, j \in DOMAIN issuedIds : i < j => issuedIds[i] < issuedIds[j]

\* More segments were allocated than there are slots: a slot was used again.
C8_Witness == Len(issuedIds) > maxSegments

\* C9 (as the specification states it): with the free count and the reserves
\* taken after the scan, allocHead returns a normal head iff free > reserved,
\* else an emergency head iff mustNotFail or some segment is in
\* FREEABLE_PENDING_DIGEST_AND_REFERENCES, else absent; and no assertion of
\* mayAlloc fails on the way.
C9_AllocHeadOutcome ==
    [][ /\ IsAllocHeadBegin =>
              LET m == FreeUnreferencedSegments(Mgr, GetEarliestOutstandingEpoch)
              IN  lastCall'.outcome =
                      IF m.allocatorFree > TotalReserved(m) THEN "head"
                      ELSE IF mustNotFail'
                              \/ m.segmentsByState[
                                     FREEABLE_PENDING_DIGEST_AND_REFERENCES] # << >>
                           THEN "emergency"
                           ELSE "absent"
        /\ AllocHeadEmergency =>
              /\ lastCall'.outcome = "emergency"
              /\ newHead' # NULL
              /\ Get(segments'[newHead']).isEmergencyHead ]_vars

\* The step in which allocHead returns absent.
ReturnsAbsent == IsAllocHeadBegin /\ lastCall'.outcome = "absent"

\* C10: an allocHead that returns absent consumed no id and called no replica
\* manager, wrote no header and no digest, and changed no segment and no
\* segment's state, the head's included; at most, its scan destroyed segments
\* that were in FREEABLE_PENDING_REFERENCES.
C10_AbsentChangesNothing ==
    [][ ReturnsAbsent =>
          /\ nextSegmentId' = nextSegmentId
          /\ segmentsByState'[HEAD] = segmentsByState[HEAD]
          /\ Len(segmentsByState[HEAD]) <= 1
          /\ \A slot \in DOMAIN segments :
                \/ segments'[slot] = segments[slot] /\ states'[slot] = states[slot]
                \/ /\ states[slot] = Tub(FREEABLE_PENDING_REFERENCES)
                   /\ segments'[slot] = Empty
                   /\ states'[slot] = Empty
          /\ \A st \in State \ { FREEABLE_PENDING_REFERENCES } :
                segmentsByState'[st] = segmentsByState[st] ]_vars

\* allocHead has returned absent while a head exists.
C10_Witness ==
    /\ pc = "idle"
    /\ lastCall.outcome = "absent"
    /\ segmentsByState[HEAD] # << >>

\* C11 (as the specification states it): whenever no operation holds the lock,
\* the allocator's free segment count is at least the emergency heads not yet
\* allocated plus the survivor segments not yet allocated.
C11_FreeCoversReserve ==
    pc = "idle" => allocatorFree >= TotalReserved(Mgr)

\* C12: whenever no operation holds the lock, the two allocation counts are
\* within their caps and neither is below zero.
C12_CountersWithinCaps ==
    pc = "idle" =>
        /\ 0 <= numEmergencyHeadsAlloced
        /\ numEmergencyHeadsAlloced <= numEmergencyHeads
        /\ 0 <= numSurvivorSegmentsAlloced
        /\ numSurvivorSegmentsAlloced <= numSurvivorSegments

\* A scan has destroyed a cleaned segment while no survivor was counted, and
\* an emergency head is allocated.
C12_Witness ==
    /\ pc = "idle"
    /\ lastFreed # { }
    /\ numSurvivorSegmentsAlloced = 0
    /\ numEmergencyHeadsAlloced > 0

\* C13 (as the specification states it): increaseSurvivorReserve(n) returns
\* true and sets numSurvivorSegments to n iff n >= numSurvivorSegments and
\* n + numEmergencyHeads <= the free segment count, also when fewer than
\* numEmergencyHeads segments are free; otherwise it returns false and changes
\* nothing.
C13_ReserveRule ==
    [][ \A n \in 0 .. MaxReserveRequest :
          IncreaseSurvivorReserve(n) =>
            LET ok == /\ n >= numSurvivorSegments
                      /\ n + numEmergencyHeads <= allocatorFree
            IN  /\ IncreaseSurvivorReserveReturns(n) = ok
                /\ numSurvivorSegments' = IF ok THEN n ELSE numSurvivorSegments
                /\ UNCHANGED << segments, states, freeSlots, nextSegmentId,
                                idToSlotMap, allSegments, segmentsByState,
                                numEmergencyHeadsAlloced, numSurvivorSegmentsAlloced,
                                logIteratorCount, allocatorFree >> ]_vars

\* getFreeSurvivorCount(): the survivor segments reserved and not allocated.
GetFreeSurvivorCount == SurvivorSegmentsReserved(Mgr)

\* This step is a call of allocSurvivor.
IsAllocSurvivor == \E h \in HeadIdChoices : AllocSurvivor(h)

\* C14 (as the specification states it): the count getFreeSurvivorCount returns
\* is lowered by allocSurvivor alone, an allocSurvivor called while it is above
\* zero returns a new segment in CLEANING_INTO without failing an assertion,
\* and allocSurvivor returns absent exactly when, after its scan,
\* numSurvivorSegmentsAlloced = numSurvivorSegments.
C14_SurvivorGuarantee ==
    [][ /\ IsAllocSurvivor =>
              LET m == FreeUnreferencedSegments(Mgr, GetEarliestOutstandingEpoch)
                  absent == issuedIds' = issuedIds
              IN  /\ ~ failed'
                  /\ absent <=> m.numSurvivorSegmentsAlloced = m.numSurvivorSegments
                  /\ GetFreeSurvivorCount > 0 => ~ absent
                  /\ ~ absent =>
                        Get(states'[idToSlotMap'[issuedIds'[Len(issuedIds')]]])
                            = CLEANING_INTO
        /\ ~ IsAllocSurvivor =>
              numSurvivorSegments' - numSurvivorSegmentsAlloced'
                  >= GetFreeSurvivorCount ]_vars

\* This step is a call of getActiveSegments.
IsGetActiveSegments == GetActiveSegments(lastOut'.minSegmentId)

\* C15 (as the specification states it): getActiveSegments, run by an iterator
\* thread while other threads run allocHead, cleaningComplete or
\* cleanableSegments, observes only states between whole operations: it never
\* finds two segments in HEAD, the assertion of getHeadSegment never fails, and
\* it returns no segment twice.
C15_ObservesWholeOperations ==
    [][ (IsGetActiveSegments /\ logIteratorCount > 0) =>
          /\ Len(segmentsByState[HEAD]) <= 1
          /\ ~ failed'
          /\ \A i, j \in DOMAIN lastOut'.list :
                lastOut'.list[i] = lastOut'.list[j] => i = j ]_vars

\* C18 (as the specification states it): with logIteratorCount > 0,
\* getActiveSegments(minId, out) appends to out, once each, exactly the
\* segments in NEWLY_CLEANABLE, CLEANABLE,
\* FREEABLE_PENDING_DIGEST_AND_REFERENCES or HEAD whose id >= minId; with
\* logIteratorCount = 0 it throws and appends nothing; it changes no state.
C18_ActiveSegments ==
    [][ IsGetActiveSegments =>
          LET out == lastOut'.list
              minId == lastOut'.minSegmentId
              active == IdsIn(Mgr, NEWLY_CLEANABLE) \cup IdsIn(Mgr, CLEANABLE)
                          \cup IdsIn(Mgr, FREEABLE_PENDING_DIGEST_AND_REFERENCES)
                          \cup IdsIn(Mgr, HEAD)
          IN  /\ ~ failed'
              /\ UNCHANGED << segments, states, segmentsByState, idToSlotMap >>
              /\ IF logIteratorCount > 0
                 THEN /\ ~ lastOut'.threw
                      /\ Range(out) = { id \in active : id >= minId }
                      /\ \A i, j \in DOMAIN out : out[i] = out[j] => i = j
                 ELSE /\ lastOut'.threw
                      /\ out = << >> ]_vars

\* This step is an allocHead or allocSurvivor that the replica manager fails.
ReplicaManagerFails ==
    \/ AllocHeadReplicateFails
    \/ \E closed \in BOOLEAN : AllocHeadClosePrevFails(closed)
    \/ \E h \in HeadIdChoices : AllocSurvivorFails(h)

\* C16 (as the specification states it): a call that the replica manager fails
\* leaves the manager within its invariants: at most one segment in HEAD, the
\* allocation counts within their caps, and the free count, if it covered the
\* reserve before, still covering it.
C16_FailureKeepsInvariants ==
    [][ ReplicaManagerFails =>
          /\ Len(segmentsByState'[HEAD]) <= 1
          /\ numEmergencyHeadsAlloced' <= numEmergencyHeads
          /\ numSurvivorSegmentsAlloced' <= numSurvivorSegments'
          /\ allocatorFree >= TotalReserved(Mgr) =>
                allocatorFree' >= (numEmergencyHeads - numEmergencyHeadsAlloced')
                                    + (numSurvivorSegments'
                                         - numSurvivorSegmentsAlloced') ]_vars

\* The live emergency heads.
EmergencyHeads == { s \in LiveSegments : s.isEmergencyHead }

\* C17: an emergency head is in no state but HEAD, is never returned by
\* cleanableSegments, and no digest but its own lists its id, the digest of
\* the head that replaces it included; once allocHead has returned it is
\* non-appendable and it is the current head, so that the next successful
\* allocHead frees it; the emergency heads allocated are the live ones.
C17_EmergencyHeadLifecycle ==
    /\ \A e \in EmergencyHeads :
          /\ states[e.slot] = Tub(HEAD)
          /\ e.id \notin everCleanable
          /\ \A s \in LiveSegments \ { e } :
                s.digest # << >> => e.id \notin Range(s.digest[1])
          /\ pc = "idle" => e.appendsDisabled /\ e.id = lastHead
    /\ numEmergencyHeadsAlloced = Cardinality(EmergencyHeads)

\* The head that replaces an emergency head has written its digest and the
\* emergency head is about to be freed.
C17_Witness ==
    /\ pc = "closePrev"
    /\ Get(segments[prevHead]).isEmergencyHead
    /\ ~ Get(segments[newHead]).isEmergencyHead

\* C19: cleanableSegments(out) appends to out exactly the segments that are in
\* NEWLY_CLEANABLE, in list order, moves them to the back of CLEANABLE, leaves
\* NEWLY_CLEANABLE empty and every other segment as it was; none of the
\* segments it returns was returned by an earlier call.
C19_CleanableOnce ==
    [][ CleanableSegments =>
          LET out == lastOut'.list
          IN  /\ out = IdList(Mgr, segmentsByState[NEWLY_CLEANABLE])
              /\ \A i, j \in DOMAIN out : out[i] = out[j] => i = j
              /\ Range(out) \cap everCleanable = { }
              /\ segmentsByState'[NEWLY_CLEANABLE] = << >>
              /\ segmentsByState'[CLEANABLE] =
                    segmentsByState[CLEANABLE] \o segmentsByState[NEWLY_CLEANABLE]
              /\ \A st \in State \ { NEWLY_CLEANABLE, CLEANABLE } :
                    segmentsByState'[st] = segmentsByState[st]
              /\ UNCHANGED << segments, idToSlotMap, allSegments, nextSegmentId >> ]_vars

\* A later call of cleanableSegments has returned segments while CLEANABLE
\* holds segments that an earlier call returned.
C19_Witness ==
    /\ pc = "idle"
    /\ lastOut.minSegmentId = NULL
    /\ lastOut.list # << >>
    /\ Len(segmentsByState[CLEANABLE]) > Len(lastOut.list)

\* A manager constructed over n free segments with expansion factor 1, with no
\* survivor reserve, that has allocated the segments with these ids so far.
Constructed(n, ids) ==
    /\ maxSegments = n
    /\ numSurvivorSegments = 0
    /\ issuedIds = ids

\* The scenario on a manager constructed over n free segments: the first
\* allocHead(false) returns a head; a second allocHead(false) returns absent;
\* allocHead(true) in its place draws an emergency head and returns with the
\* first head in NEWLY_CLEANABLE.
Scenario(n) ==
    /\ (Constructed(n, << >>) /\ IsAllocHeadBegin /\ ~ mustNotFail') =>
          lastCall'.outcome = "head"
    /\ (Constructed(n, << 0 >>) /\ IsAllocHeadBegin /\ ~ mustNotFail') =>
          lastCall'.outcome = "absent"
    /\ (Constructed(n, << 0 >>) /\ IsAllocHeadBegin /\ mustNotFail') =>
          lastCall'.outcome = "emergency"
    /\ (Constructed(n, << 0, 1 >>) /\ mustNotFail /\ pc # "idle" /\ pc' = "idle") =>
          /\ lastHead' = 1
          /\ SegmentOf(1).isEmergencyHead
          /\ states'[idToSlotMap'[1]] = Tub(HEAD)
          /\ states'[idToSlotMap'[0]] = Tub(NEWLY_CLEANABLE)

\* C20 (as the specification states it): the scenario on a manager constructed
\* with 2 free segments.
C20_ScenarioTwoSegments == [][Scenario(2)]_vars

\* C20 (amended): the scenario on a manager constructed with 3 free segments;
\* with 2, the emergency reserve covers both and the first allocHead(false)
\* returns absent.
C20_ScenarioThreeSegments ==
    [][ /\ Scenario(3)
        /\ (Constructed(2, << >>) /\ IsAllocHeadBegin /\ ~ mustNotFail') =>
              lastCall'.outcome = "absent" ]_vars

\* On a manager over 3 segments allocHead(true) has returned the emergency
\* head 1 and the first head is in NEWLY_CLEANABLE.
C20_Witness ==
    /\ Constructed(3, << 0, 1 >>)
    /\ pc = "idle"
    /\ lastHead = 1
    /\ mustNotFail
    /\ IdsIn(Mgr, NEWLY_CLEANABLE) = { 0 }

\* The cleaning pass is done: head H1 (id 0) was cleaned into the survivors S1
\* (id 1) and S2 (id 2) while H2 (id 3) is the head, and no iterator exists.
CleaningPassDone ==
    /\ pc = "idle"
    /\ issuedIds = << 0, 1, 2, 3 >>
    /\ logIteratorCount = 0
    /\ IdsIn(Mgr, FREEABLE_PENDING_DIGEST_AND_REFERENCES) = { 0 }
    /\ IdsIn(Mgr, CLEANABLE_PENDING_DIGEST) = { 1, 2 }
    /\ IdsIn(Mgr, HEAD) = { 3 }
    /\ ~ SegmentOf(3).isEmergencyHead

\* The allocHead that creates H3 (id 4) after the cleaning pass writes a digest
\* with this id set, and leaves S1 and S2 in NEWLY_CLEANABLE and H1 in
\* FREEABLE_PENDING_REFERENCES.
CleaningPassDigest(ids) ==
    (CleaningPassDone /\ WritesDigest) =>
        /\ Get(segments'[newHead']).id = 4
        /\ Range(Get(segments'[newHead']).digest[1]) = ids
        /\ states'[idToSlotMap'[1]] = Tub(NEWLY_CLEANABLE)
        /\ states'[idToSlotMap'[2]] = Tub(NEWLY_CLEANABLE)
        /\ states'[idToSlotMap'[0]] = Tub(FREEABLE_PENDING_REFERENCES)

\* C21 (as the specification states it): the digest of H3 lists
\* { S1, S2, H2, H3, H1 }, the just-cleaned H1 included.
C21_DigestListsCleaned == [][CleaningPassDigest({ 1, 2, 3, 4, 0 })]_vars

\* C21 (amended): the digest of H3 lists exactly { S1, S2, H2, H3 }; H1, in
\* FREEABLE_PENDING_DIGEST_AND_REFERENCES with no iterator active, is left out;
\* after the call S1 and S2 are in NEWLY_CLEANABLE and H1 is in
\* FREEABLE_PENDING_REFERENCES.
C21_DigestOmitsCleaned == [][CleaningPassDigest({ 1, 2, 3, 4 })]_vars

\* H3 (id 4) has just been allocated after the cleaning pass and carries its
\* digest; H1 awaits the end of the RPCs that may refer to it.
C21_Witness ==
    /\ pc = "replicate"
    /\ issuedIds = << 0, 1, 2, 3, 4 >>
    /\ logIteratorCount = 0
    /\ IdsIn(Mgr, FREEABLE_PENDING_REFERENCES) = { 0 }
    /\ IdsIn(Mgr, NEWLY_CLEANABLE) = { 1, 2 }
    /\ IdsIn(Mgr, HEAD) = { 3, 4 }
    /\ SegmentOf(1).header = << 0 >>
    /\ SegmentOf(2).header = << 0 >>
    /\ ~ Get(segments[prevHead]).isEmergencyHead
    /\ Range(NewDigest) = { 1, 2, 3, 4 }

\* Head allocations have stopped: the process is aborted, or the manager has
\* issued the last id of the model.
Stopped == pc = "aborted" \/ nextSegmentId >= IdLimit

\* This step calls alloc(): it is an allocation attempt.
IsAllocation == IsAllocHeadBegin \/ AllocHeadEmergency \/ IsAllocSurvivor

\* The segments in FREEABLE_PENDING_REFERENCES that no outstanding RPC can
\* refer to.
UnreferencedIds ==
    { id \in IdsIn(Mgr, FREEABLE_PENDING_REFERENCES) :
        Unreferenced(SegmentOf(id), GetEarliestOutstandingEpoch) }

\* C22: each allocation attempt frees every segment in
\* FREEABLE_PENDING_REFERENCES whose cleanedEpoch is below the earliest
\* outstanding epoch; and if from some point on logIteratorCount stays 0, then,
\* as allocHead keeps being called and RPCs finish, every segment passed to
\* cleaningComplete is eventually freed and every survivor in
\* CLEANABLE_PENDING_DIGEST eventually reaches NEWLY_CLEANABLE, unless head
\* allocations stop first: again and again no cleaned segment is left and no
\* survivor awaits a digest.
C22_ReclamationResumes ==
    /\ [][ IsAllocation => UnreferencedIds \subseteq FreedIds ]_vars
    /\ <>[](logIteratorCount = 0) =>
          /\ []<>(everCleaned = { } \/ Stopped)
          /\ []<>(segmentsByState[CLEANABLE_PENDING_DIGEST] = << >> \/ Stopped)

\* With no iterator left, an allocation has just freed the last cleaned segment
\* while the manager still has ids to issue.
C22_Witness ==
    /\ pc = "idle"
    /\ logIteratorCount = 0
    /\ lastFreed # { }
    /\ everCleaned = { }
    /\ ~ Stopped

\* The slot holds a segment: some live id maps to it.
Occupied(slot) == \E id \in DOMAIN idToSlotMap : idToSlotMap[id] = slot

\* C23: operator[](slot) returns a segment iff slot < maxSegments and the slot
\* is occupied, and then the segment whose slot field is slot; for a slot out
\* of range, never used, or whose segment was freed and not replaced, it
\* throws; in both cases it changes no state of the manager.
C23_LookupBySlot ==
    [][ \A slot \in 0 .. MaxFreeSegments :
          Lookup(slot) =>
            /\ ~ lastOut'.threw <=> (slot < maxSegments /\ Occupied(slot))
            /\ ~ lastOut'.threw =>
                  /\ Len(lastOut'.list) = 1
                  /\ idToSlotMap[lastOut'.list[1]] = slot
                  /\ SegmentOf(lastOut'.list[1]).slot = slot
            /\ UNCHANGED << maxSegments, mgrVars, frameVars, rpcVars >> ]_vars

\* operator[] has returned the segment that now holds a slot whose earlier
\* segment was freed.
C23_Witness ==
    /\ ~ lastOut.threw
    /\ lastOut.minSegmentId = NULL
    /\ Len(lastOut.list) = 1
    /\ lastOut.list[1] >= maxSegments
    /\ \E slot \in Range(freeSlots) : slot # Back(freeSlots)

\* What getActiveSegments(0, out) would append to out.
ActiveIds == Range(WalkActive(Mgr, ActiveSegmentStates, 0) \o ActiveHead(Mgr, 0))

\* The log digest written last: the one the newest head carries.
LatestDigest == Get(segments[GetHeadSegment(Mgr)]).digest[1]

C25_FreedAfterReplication == [][ FreedIds \cap unreplicated = { } ]_vars

\* This step is a cleaningComplete: no other operation increments the epoch.
IsCleaningComplete == currentEpoch' # currentEpoch

\* The list `clean` of this cleaningComplete: what it put at the back of
\* FREEABLE_PENDING_DIGEST_AND_REFERENCES, in the order of the list.
CleanPassed ==
    SubSeq(segmentsByState'[FREEABLE_PENDING_DIGEST_AND_REFERENCES],
           Len(segmentsByState[FREEABLE_PENDING_DIGEST_AND_REFERENCES]) + 1,
           Len(segmentsByState'[FREEABLE_PENDING_DIGEST_AND_REFERENCES]))

\* The live segments that were passed to cleaningComplete, after this step.
CleanedAfter == { Get(segments'[idToSlotMap'[id]]) : id \in everCleaned' }

\* C26: cleaningComplete(clean) moves every segment in CLEANING_INTO to
\* CLEANABLE_PENDING_DIGEST, increments the RPC epoch by exactly one, sets the
\* cleanedEpoch of every segment in clean to the epoch before the increment and
\* moves it to FREEABLE_PENDING_DIGEST_AND_REFERENCES, and leaves all other
\* segments, the reserves and the iterator counter unchanged; hence the epoch
\* an RPC gets when it starts is always strictly greater than the cleanedEpoch
\* of every cleaned segment.
C26_CleaningComplete ==
    [][ /\ IsCleaningComplete =>
              LET into == segmentsByState[CLEANING_INTO]
                  clean == CleanPassed
              IN  /\ Range(clean) \subseteq Range(segmentsByState[CLEANABLE])
                  /\ Range(IdList(Mgr, clean)) = everCleaned' \ everCleaned
                  /\ currentEpoch' = currentEpoch + 1
                  /\ segmentsByState' =
                        [ segmentsByState EXCEPT
                            ![CLEANING_INTO] = << >>,
                            ![CLEANABLE_PENDING_DIGEST] = @ \o into,
                            ![CLEANABLE] = SelectSeq(@, LAMBDA slot :
                                                          slot \notin Range(clean)),
                            ![FREEABLE_PENDING_DIGEST_AND_REFERENCES] = @ \o clean ]
                  /\ \A slot \in Range(clean) :
                        /\ states'[slot] = Tub(FREEABLE_PENDING_DIGEST_AND_REFERENCES)
                        /\ segments'[slot] =
                              Tub([ Get(segments[slot])
                                      EXCEPT !.cleanedEpoch = currentEpoch ])
                  /\ \A slot \in Range(into) :
                        /\ states'[slot] = Tub(CLEANABLE_PENDING_DIGEST)
                        /\ segments'[slot] = segments[slot]
                  /\ \A slot \in (DOMAIN segments) \ (Range(clean) \cup Range(into)) :
                        /\ states'[slot] = states[slot]
                        /\ segments'[slot] = segments[slot]
                  /\ UNCHANGED << freeSlots, nextSegmentId, idToSlotMap, allSegments,
                                  numEmergencyHeadsAlloced, numSurvivorSegments,
                                  numSurvivorSegmentsAlloced, logIteratorCount,
                                  allocatorFree, outstandingRpcs >>
        /\ \A s \in CleanedAfter : s.cleanedEpoch < currentEpoch' ]_vars

\* cleaningComplete has returned: it cleaned a segment into a survivor.
C26_Witness ==
    /\ pc = "idle"
    /\ lastCall = NoCall
    /\ lastFreed = { }
    /\ currentEpoch > 0
    /\ awaitingDigest # { }
    /\ segmentsByState[CLEANABLE_PENDING_DIGEST] # << >>
    /\ segmentsByState[FREEABLE_PENDING_DIGEST_AND_REFERENCES] # << >>

\* The edges of the state graph.
StateGraph ==
    { << HEAD, NEWLY_CLEANABLE >>,
      << CLEANING_INTO, CLEANABLE_PENDING_DIGEST >>,
      << CLEANABLE_PENDING_DIGEST, NEWLY_CLEANABLE >>,
      << NEWLY_CLEANABLE, CLEANABLE >>,
      << CLEANABLE, FREEABLE_PENDING_DIGEST_AND_REFERENCES >>,
      << FREEABLE_PENDING_DIGEST_AND_REFERENCES, FREEABLE_PENDING_REFERENCES >> }

\* *states[s.slot] of the segment with this id, before and after the step.
StateOf(id) == Get(states[idToSlotMap[id]])

StateAfter(id) == Get(states'[idToSlotMap'[id]])

\* The ids alloc() constructed in this step.
BornIds == (DOMAIN idToSlotMap') \ (DOMAIN idToSlotMap)

\* C27: every state change of a segment follows an edge of the state graph:
\* a segment is born in HEAD or CLEANING_INTO, a live segment keeps its state
\* or moves along one edge, and a segment is destroyed only from
\* FREEABLE_PENDING_REFERENCES by the reclamation scan, or from HEAD if it is
\* an emergency head.
C27_StateGraph ==
    [][ /\ \A id \in BornIds : StateAfter(id) \in { HEAD, CLEANING_INTO }
        /\ \A id \in (DOMAIN idToSlotMap) \cap (DOMAIN idToSlotMap') :
              \/ StateAfter(id) = StateOf(id)
              \/ << StateOf(id), StateAfter(id) >> \in StateGraph
        /\ \A id \in FreedIds :
              \/ StateOf(id) = FREEABLE_PENDING_REFERENCES /\ id \in lastFreed'
              \/ StateOf(id) = HEAD /\ SegmentOf(id).isEmergencyHead ]_vars

\* A segment went from HEAD along every edge and was destroyed by the scan,
\* while a later head is open and another segment is cleanable.
C27_Witness ==
    /\ pc = "idle"
    /\ lastFreed # { }
    /\ segmentsByState[HEAD] # << >>
    /\ \E id \in DOMAIN idToSlotMap : StateOf(id) \in { NEWLY_CLEANABLE, CLEANABLE }

FreeEffect(m, slot) ==
    LET s == Get(m.segments[slot])
        after == Free(m, slot)
    IN  /\ after.freeSlots = Append(m.freeSlots, slot)
        /\ DOMAIN after.idToSlotMap = (DOMAIN m.idToSlotMap) \ { s.id }
        /\ ~ Present(after.segments[slot])
        /\ ~ Present(after.states[slot])
        /\ slot \notin after.allSegments
        /\ \A st \in State : slot \notin Range(after.segmentsByState[st])
        /\ after.allocatorFree = m.allocatorFree + 1
        /\ IF s.isEmergencyHead
           THEN /\ after.numEmergencyHeadsAlloced = m.numEmergencyHeadsAlloced - 1
                /\ after.numSurvivorSegmentsAlloced = m.numSurvivorSegmentsAlloced
           ELSE /\ after.numEmergencyHeadsAlloced = m.numEmergencyHeadsAlloced
                /\ after.numSurvivorSegmentsAlloced =
                      IF m.numSurvivorSegmentsAlloced > 0
                      THEN m.numSurvivorSegmentsAlloced - 1
                      ELSE 0
                /\ m.numSurvivorSegmentsAlloced > 0 =>
                      after.allocatorFree - TotalReserved(after)
                        <= m.allocatorFree - TotalReserved(m)

\* C29: freeing a segment returns its slot to the free slots, erases its id
\* from idToSlotMap and releases its memory; an emergency head decrements
\* numEmergencyHeadsAlloced, any other segment decrements
\* numSurvivorSegmentsAlloced when it is positive and never below zero; while
\* the survivor reserve is not full the freed segment refills it, so that the
\* free segment count minus the total reserved does not increase.
C29_FreeEffects ==
    [][ /\ \A id \in FreedIds :
              /\ FreeEffect(Mgr, idToSlotMap[id])
              /\ \/ idToSlotMap[id] \in Range(freeSlots')
                 \/ \E b \in BornIds : idToSlotMap'[b] = idToSlotMap[id]
        /\ numSurvivorSegmentsAlloced' >= 0
        /\ numEmergencyHeadsAlloced' >= 0
        /\ (pc = "closePrev" /\ FreedIds # { }) =>
              /\ FreedIds = { Get(segments[prevHead]).id }
              /\ freeSlots' = Append(freeSlots, prevHead)
              /\ numEmergencyHeadsAlloced' = numEmergencyHeadsAlloced - 1
              /\ numSurvivorSegmentsAlloced' = numSurvivorSegmentsAlloced
              /\ allocatorFree' = allocatorFree + 1 ]_vars

\* A scan of allocHead freed a cleaned segment while a survivor was out of the
\* reserve: the reserve is full again and the survivor is still live.
C29_Witness ==
    /\ lastFreed # { }
    /\ numSurvivorSegments > 0
    /\ numSurvivorSegmentsAlloced = 0
    /\ \E id \in DOMAIN idToSlotMap :
          SegmentOf(id).header \notin { << >>, << INVALID_SEGMENT_ID >> }

\* doesIdExist(id): contains(idToSlotMap, id).
DoesIdExist(m, id) == id \in DOMAIN m.idToSlotMap

\* The slots that hold a segment.
OccupiedSlots == { slot \in DOMAIN segments : Present(segments[slot]) }

\* C30: whenever no operation holds the lock, segments[s] is present iff
\* states[s] is present, idToSlotMap holds exactly the ids of the segments in
\* occupied slots and maps each to the slot of the segment with that id, and
\* freeSlots holds exactly the unoccupied slots, each once; so doesIdExist(id)
\* is true from the allocation of id until its segment is freed, and an id
\* that was handed out before never starts to exist again.
C30_SlotsAndIds ==
    /\ [](pc = "idle" =>
            /\ \A slot \in DOMAIN segments :
                  Present(segments[slot]) <=> Present(states[slot])
            /\ DOMAIN states = DOMAIN segments
            /\ { id \in 0 .. nextSegmentId : DoesIdExist(Mgr, id) }
                  = { Get(segments[slot]).id : slot \in OccupiedSlots }
            /\ \A id \in DOMAIN idToSlotMap :
                  /\ idToSlotMap[id] \in OccupiedSlots
                  /\ Get(segments[idToSlotMap[id]]).id = id
                  /\ Get(segments[idToSlotMap[id]]).slot = idToSlotMap[id]
            /\ Range(freeSlots) = (DOMAIN segments) \ OccupiedSlots
            /\ Len(freeSlots) = Cardinality(Range(freeSlots))
            /\ \A id \in DOMAIN idToSlotMap :
                  id \in Range(issuedIds) /\ id < nextSegmentId)
    /\ [][ /\ \A id \in BornIds :
                  id \notin Range(issuedIds) /\ id \in Range(issuedIds')
           /\ \A id \in Range(issuedIds) :
                  (~ DoesIdExist(Mgr, id)) => ~ DoesIdExist(Mgr', id) ]_vars

\* A freed id no longer exists and a slot holds a segment other than the one
\* the slot was first taken for (alloc takes the back of freeSlots).
C30_Witness ==
    /\ pc = "idle"
    /\ \E id \in Range(issuedIds) : ~ DoesIdExist(Mgr, id)
    /\ \E id \in DOMAIN idToSlotMap :
          idToSlotMap[id] # maxSegments - 1 - id
    /\ freeSlots # << >>

\* getAllocatedSegmentCount(): allSegments.size().
GetAllocatedSegmentCount(m) == Cardinality(m.allSegments)

\* How many times `slot` is on `list`.
Occurrences(list, slot) == Cardinality({ i \in DOMAIN list : list[i] = slot })

\* C31: whenever no operation holds the lock, every live segment is on
\* exactly one per-state list, the list of the state recorded for its slot,
\* once, and on the list of all segments; no freed segment is on any list; and
\* getAllocatedSegmentCount is the number of occupied slots.
C31_ListMembership ==
    pc = "idle" =>
        /\ \A slot \in OccupiedSlots :
              /\ slot \in allSegments
              /\ \A st \in State :
                    Occurrences(segmentsByState[st], slot)
                      = IF st = Get(states[slot]) THEN 1 ELSE 0
        /\ \A slot \in (DOMAIN segments) \ OccupiedSlots :
              /\ slot \notin allSegments
              /\ \A st \in State : slot \notin Range(segmentsByState[st])
        /\ allSegments \subseteq DOMAIN segments
        /\ \A st \in State : Range(segmentsByState[st]) \subseteq DOMAIN segments
        /\ GetAllocatedSegmentCount(Mgr) = Cardinality(OccupiedSlots)

\* A segment was freed and the live ones are spread over three lists.
C31_Witness ==
    /\ pc = "idle"
    /\ \E id \in Range(issuedIds) : id \notin DOMAIN idToSlotMap
    /\ Cardinality({ st \in State : segmentsByState[st] # << >> }) >= 3
    /\ GetAllocatedSegmentCount(Mgr) >= 3

\* C32: in every cleaningComplete call the seglets of the survivors drained
\* from CLEANING_INTO (segletsUsed) are at most the seglets of the segments in
\* clean (segletsFreed): the assertion segletsUsed <= segletsFreed holds and
\* the call returns.
C32_SegletsNetNonLoss ==
    [][ IsCleaningComplete => (~ failed' /\ pc' = "idle") ]_vars

====
